---------------------------- MODULE Spec2Model ----------------------------
(* Model of the ChiMei health-insurance history search:                    *)
(*   HistoryDataSearch.py  clean_str, HistoryDataSearch                    *)
(*   IndexSQL.py           fuzzy_search_product, search_products           *)
(*   APP_UI_SQLver.py      Worker.run, MainWindow.start_search/on_finished *)
(* Text is a sequence of one-character tokens; a token is a one-character  *)
(* string or the name of a code point ("U+0130").                          *)
EXTENDS Integers, Sequences, FiniteSets, TLC

(***************************************************************************)
(* Bounds of the model.                                                    *)
(***************************************************************************)
\* longest text handed to clean_str in SpecClean
MaxLen == 3
\* largest integer cell value handed to clean_str in SpecClean
MaxInt == 11

\* longest keyword handed to fuzzy_search_product in SpecSearch
MaxKw == 2
\* most products (before padding) in the products table in SpecSearch
MaxDb == 2

\* most rows of the price table and of the format table in SpecReconcile
MaxPrice == 3
MaxFormat == 2
\* most searches the user starts in Spec
MaxRuns == 3

VARIABLES
    cs_in,      \* clean_str: the argument s
    cs_out,     \* clean_str(s): [run, s]
    cs_again,   \* clean_str(clean_str(s)): [run, s]
    fs_db,      \* fuzzy_search_product: rows of the products table, in storage order
    fs_kw,      \* fuzzy_search_product: keyword
    fs_score,   \* fuzz.token_set_ratio(keyword, name) for each product name
    fs_res,     \* fuzzy_search_product's return value: [run, matches]
    env,        \* the data directory's files the program only reads, and its locks
    idxFile,    \* data/IndexSQL_find.csv
    histFile,   \* data/HistoryData.csv
    rc,         \* the last call of HistoryDataSearch: its inputs and what it returned
    btn,        \* search_btn.isEnabled()
    wk,         \* the Worker objects start_search has created, each with its position
    nWorkers,   \* how many Worker objects start_search has created
    sigq,       \* finished signals queued for the GUI thread
    emitted,    \* the last finished signal a Worker emitted
    ui          \* status label, table model and the last message box

cleanVars  == <<cs_in, cs_out, cs_again>>
searchVars == <<fs_db, fs_kw, fs_score, fs_res>>
fileVars   == <<env, idxFile, histFile, rc>>
guiVars    == <<btn, wk, nWorkers, sigq, emitted, ui>>
vars == <<cleanVars, searchVars, fileVars, guiVars>>

NotRunText == [run |-> FALSE, s |-> <<>>]
NotRunSearch == [run |-> FALSE, matches |-> <<>>]

\* the variables of a part of the program no specification is running
CleanIdle ==
    /\ cs_in = [tag |-> "None"]
    /\ cs_out = NotRunText
    /\ cs_again = NotRunText

SearchIdle ==
    /\ fs_db = <<>>
    /\ fs_kw = <<>>
    /\ fs_score = <<>>
    /\ fs_res = NotRunSearch

NoFile == [st |-> "missing", cols |-> {}, rows |-> <<>>]
NoFrame == [none |-> TRUE, rows |-> <<>>]
NotRunReconcile ==
    [run |-> FALSE, df |-> NoFrame, msg |-> <<>>, before |-> NoFile, index |-> NoFile,
     keyword |-> <<>>, matched |-> <<>>]
NotEmitted == [run |-> FALSE, df |-> <<>>, status |-> <<>>, error |-> <<>>]

FilesIdle ==
    /\ env = [csv |-> NoFile, format |-> NoFile, price |-> NoFile,
              idxLocked |-> FALSE, histLocked |-> FALSE]
    /\ idxFile = NoFile
    /\ histFile = NoFile
    /\ rc = NotRunReconcile

GuiIdle ==
    /\ btn = TRUE
    /\ wk = <<>>
    /\ nWorkers = 0
    /\ sigq = <<>>
    /\ emitted = NotEmitted
    /\ ui = [status |-> <<"Ready">>, table |-> <<>>, box |-> "none"]

(***************************************************************************)
(* Sequence helpers.                                                       *)
(***************************************************************************)
RECURSIVE Flatten(_)
Flatten(ss) == IF ss = <<>> THEN <<>> ELSE Head(ss) \o Flatten(Tail(ss))

SeqsUpTo(S, n) == UNION {[1..k -> S] : k \in 0..n}

(***************************************************************************)
(* clean_str  (HistoryDataSearch.py 44-59)                                 *)
(***************************************************************************)
\* the code points the model's texts are written in
Alphabet == {"Q", "q", "U+FF31", " ", "U+3000", "TAB", "I", "U+0130", "U+0307", "U+0327"}

\* Unicode White_Space as str.strip() and the regex class \s see it
IsSpace(c) == c \in {" ", "TAB", "U+3000"}

\* canonical combining class (UnicodeData.txt): U+0307 above = 230, U+0327 cedilla = 202
CCC(c) == CASE c = "U+0307" -> 230 [] c = "U+0327" -> 202 [] OTHER -> 0

\* full compatibility decomposition of one code point
Decomp(c) ==
    CASE c = "U+FF31" -> <<"Q">>             \* FULLWIDTH LATIN CAPITAL LETTER Q
      [] c = "U+3000" -> <<" ">>             \* IDEOGRAPHIC SPACE
      [] c = "U+0130" -> <<"I", "U+0307">>   \* LATIN CAPITAL LETTER I WITH DOT ABOVE
      [] OTHER        -> <<c>>

\* canonical ordering: exchange adjacent marks until classes are non-decreasing
RECURSIVE CanonicalOrder(_)
CanonicalOrder(s) ==
    LET bad == {i \in 1..(Len(s) - 1) : CCC(s[i + 1]) > 0 /\ CCC(s[i]) > CCC(s[i + 1])}
    IN  IF bad = {} THEN s
        ELSE LET i == CHOOSE j \in bad : \A k \in bad : j <= k
             IN  CanonicalOrder([s EXCEPT ![i] = s[i + 1], ![i + 1] = s[i]])

\* primary composites among the model's code points
HasComposite(a, b) == a = "I" /\ b = "U+0307"
Composite(a, b) == "U+0130"

\* canonical composition: out is the text built so far, st the index in out of the
\* last starter (0: none), last the class of the last code point appended after it
\* (-1: the starter is the last code point)
RECURSIVE ComposeFrom(_, _, _, _)
ComposeFrom(rest, out, st, last) ==
    IF rest = <<>> THEN out
    ELSE LET c  == Head(rest)
             cc == CCC(c)
         IN  IF st > 0 /\ (last = -1 \/ (last < cc /\ last # 0)) /\ HasComposite(out[st], c)
             THEN ComposeFrom(Tail(rest), [out EXCEPT ![st] = Composite(out[st], c)], st, last)
             ELSE IF cc = 0
                  THEN ComposeFrom(Tail(rest), Append(out, c), Len(out) + 1, -1)
                  ELSE ComposeFrom(Tail(rest), Append(out, c), st, cc)

\* unicodedata.normalize("NFKC", s)
NFKC(s) ==
    ComposeFrom(CanonicalOrder(Flatten([i \in 1..Len(s) |-> Decomp(s[i])])), <<>>, 0, 0)

\* s.strip()
RECURSIVE LStrip(_)
LStrip(s) == IF s # <<>> /\ IsSpace(Head(s)) THEN LStrip(Tail(s)) ELSE s
RECURSIVE RStrip(_)
RStrip(s) ==
    IF s # <<>> /\ IsSpace(s[Len(s)]) THEN RStrip(SubSeq(s, 1, Len(s) - 1)) ELSE s
Strip(s) == RStrip(LStrip(s))

\* re.sub(r"\s+", " ", s)
RECURSIVE CollapseSpaces(_)
CollapseSpaces(s) ==
    IF s = <<>> THEN <<>>
    ELSE IF IsSpace(Head(s))
         THEN <<" ">> \o CollapseSpaces(LStrip(Tail(s)))
         ELSE <<Head(s)>> \o CollapseSpaces(Tail(s))

\* str.lower() of one code point (SpecialCasing.txt: U+0130 -> U+0069 U+0307)
LowerChar(c) ==
    CASE c = "Q"      -> <<"q">>
      [] c = "I"      -> <<"i">>
      [] c = "U+0130" -> <<"i", "U+0307">>
      [] OTHER        -> <<c>>
Lower(s) == Flatten([i \in 1..Len(s) |-> LowerChar(s[i])])

\* Cell values: text, an int, a float with no fraction, float('nan'), None
TextVal(s)  == [tag |-> "str", s |-> s]
IntVal(n)   == [tag |-> "int", n |-> n]
FloatVal(n) == [tag |-> "float", n |-> n]
NaNVal      == [tag |-> "nan"]
NoneVal     == [tag |-> "None"]

\* pd.isna(s); the variant is clean_str without its first two lines
IsNaNoCheck(v) == FALSE
IsNa(v) == v.tag \in {"nan", "None"}

\* str(n) of a non-negative int
RECURSIVE Digits(_)
Digits(n) ==
    LET d == <<"0", "1", "2", "3", "4", "5", "6", "7", "8", "9">>[(n % 10) + 1]
    IN  IF n < 10 THEN <<d>> ELSE Append(Digits(n \div 10), d)

\* str(s)
PyStr(v) ==
    CASE v.tag = "str"   -> v.s
      [] v.tag = "int"   -> IF v.n < 0 THEN <<"-">> \o Digits(-v.n) ELSE Digits(v.n)
      [] v.tag = "float" -> (IF v.n < 0 THEN <<"-">> \o Digits(-v.n) ELSE Digits(v.n))
                            \o <<".", "0">>
      [] v.tag = "nan"   -> <<"n", "a", "n">>
      [] v.tag = "None"  -> <<"N", "o", "n", "e">>

clean_str(v) ==
    IF IsNa(v) THEN <<>>
    ELSE Lower(CollapseSpaces(Strip(NFKC(PyStr(v)))))

(***************************************************************************)
(* fuzzy_search_product  (IndexSQL.py 62-100)                              *)
(* A products row is [code, name, size, type]: "功能類別(前5碼)", 名稱,    *)
(* 大小類, 類別.  A match is <<名稱, 功能類別(前5碼)>>.                    *)
(***************************************************************************)
\* threshold=40 (IndexSQL.py 62)
DefaultThreshold == 40
\* limit=30 (IndexSQL.py 85)
ExtractLimit == 30

Product(c, n, s, t) == [code |-> c, name |-> n, size |-> s, type |-> t]

\* SQLite's LIKE folds the case of ASCII letters
Fold(c) == CASE c = "A" -> "a" [] c = "Q" -> "q" [] c = "I" -> "i" [] OTHER -> c

\* text LIKE pattern: % is any run of characters, _ any one character
RECURSIVE Like(_, _)
Like(p, t) ==
    IF p = <<>> THEN t = <<>>
    ELSE IF Head(p) = "%" THEN Like(Tail(p), t) \/ (t # <<>> /\ Like(p, Tail(t)))
    ELSE IF t = <<>> THEN FALSE
    ELSE IF Head(p) = "_" THEN Like(Tail(p), Tail(t))
    ELSE Fold(Head(p)) = Fold(Head(t)) /\ Like(Tail(p), Tail(t))

\* search_pattern = f"%{keyword}%"  (IndexSQL.py 72)
SearchPattern(keyword) == <<"%">> \o keyword \o <<"%">>

\* WHERE 名稱 LIKE ? OR 大小類 LIKE ? OR 類別 LIKE ?
DirectMatch(r, keyword) ==
    \/ Like(SearchPattern(keyword), r.name)
    \/ Like(SearchPattern(keyword), r.size)
    \/ Like(SearchPattern(keyword), r.type)

\* process.extract(keyword, product_names, scorer=..., limit=n): heapq.nlargest by
\* score, equal scores in the order of product_names
RECURSIVE NLargest(_, _, _)
NLargest(n, names, score) ==
    IF n = 0 \/ names = <<>> THEN <<>>
    ELSE LET best == CHOOSE i \in 1..Len(names) :
                        /\ \A j \in 1..Len(names) : score[names[j]] <= score[names[i]]
                        /\ \A j \in 1..(i - 1) : score[names[j]] < score[names[i]]
             rest == SubSeq(names, 1, best - 1) \o SubSeq(names, best + 1, Len(names))
         IN  <<names[best]>> \o NLargest(n - 1, rest, score)

Extract(names, score) == NLargest(ExtractLimit, names, score)

\* SELECT "功能類別(前5碼)" FROM products WHERE 名稱 = ?  ... fetchone()
RefProduct(db, name) == SelectSeq(db, LAMBDA r : r.name = name)

\* the loop over matches (IndexSQL.py 87-94)
RECURSIVE FuzzyMatches(_, _, _, _)
FuzzyMatches(db, matches, score, threshold) ==
    IF matches = <<>> THEN <<>>
    ELSE LET m   == Head(matches)
             ref == RefProduct(db, m)
         IN  (IF score[m] >= threshold /\ ref # <<>> THEN <<<<m, ref[1].code>>>> ELSE <<>>)
             \o FuzzyMatches(db, Tail(matches), score, threshold)

fuzzy_search_product(db, keyword, score, threshold) ==
    LET direct_matches == SelectSeq(db, LAMBDA r : DirectMatch(r, keyword))
        product_names  == [i \in 1..Len(db) |-> db[i].name]
    IN  IF direct_matches # <<>>
        THEN [i \in 1..Len(direct_matches) |->
                 <<direct_matches[i].name, direct_matches[i].code>>]
        ELSE FuzzyMatches(db, Extract(product_names, score), score, threshold)

(***************************************************************************)
(* SpecSearch: fuzzy_search_product on a bounded products table.           *)
(***************************************************************************)
ProductPool ==
    { Product("C1", <<"a", "b">>, <<"x">>, <<"y">>),
      Product("C2", <<"A">>,      <<"x">>, <<"b">>),
      Product("C1", <<"x">>,      <<"a">>, <<"y">>),
      Product("C3", <<"y", "b">>, <<"x">>, <<"x">>) }

Filler == Product("C9", <<"z", "z">>, <<"z">>, <<"z">>)

KeywordAlphabet == {"a", "A", "b", "_"}

Keywords == SeqsUpTo(KeywordAlphabet, MaxKw) \ {<<>>}

\* the products tables of SpecSearch: up to MaxDb pool rows, then no padding or
\* enough equal rows to exceed the limit of process.extract
SearchDbs ==
    {d \o [i \in 1..pad |-> Filler] :
        d \in SeqsUpTo(ProductPool, MaxDb), pad \in {0, ExtractLimit}}

NamesOf(db) == {db[i].name : i \in 1..Len(db)}

Chars(s) == {Fold(s[i]) : i \in 1..Len(s)}

\* the scores the scorer can give: a score is a function of the two texts, and two
\* texts with no character in common score 0
ScoreValues == {39, 40, 100}
ScoreTables(keyword, names) ==
    {sc \in [names -> ScoreValues \cup {0}] :
        \A n \in names : (sc[n] = 0) <=> (Chars(keyword) \cap Chars(n) = {})}

InitSearch ==
    /\ fs_db \in SearchDbs
    /\ fs_kw \in Keywords
    /\ fs_score \in ScoreTables(fs_kw, NamesOf(fs_db))
    /\ fs_res = NotRunSearch
    /\ CleanIdle /\ FilesIdle /\ GuiIdle

FuzzySearch ==
    /\ ~fs_res.run
    /\ fs_res' = [run |-> TRUE,
                  matches |-> fuzzy_search_product(fs_db, fs_kw, fs_score, DefaultThreshold)]
    /\ UNCHANGED <<fs_db, fs_kw, fs_score, cleanVars, fileVars, guiVars>>

NextSearch == FuzzySearch

SpecSearch == InitSearch /\ [][NextSearch]_vars

(***************************************************************************)
(* SpecClean: clean_str applied to a cell value, then to its own result.   *)
(***************************************************************************)
CleanInputs ==
    {TextVal(s) : s \in SeqsUpTo(Alphabet, MaxLen)}
        \cup {IntVal(n) : n \in (-2)..MaxInt}
        \cup {FloatVal(n) : n \in (-2)..MaxInt}
        \cup {NaNVal, NoneVal}

InitClean ==
    /\ cs_in \in CleanInputs
    /\ cs_out = NotRunText
    /\ cs_again = NotRunText
    /\ SearchIdle /\ FilesIdle /\ GuiIdle

CleanOnce ==
    /\ ~cs_out.run
    /\ cs_out' = [run |-> TRUE, s |-> clean_str(cs_in)]
    /\ UNCHANGED <<cs_in, cs_again, searchVars, fileVars, guiVars>>

CleanAgain ==
    /\ cs_out.run
    /\ ~cs_again.run
    /\ cs_again' = [run |-> TRUE, s |-> clean_str(TextVal(cs_out.s))]
    /\ UNCHANGED <<cs_in, cs_out, searchVars, fileVars, guiVars>>

NextClean == CleanOnce \/ CleanAgain

SpecClean == InitClean /\ [][NextClean]_vars

(***************************************************************************)
(* Files and exceptions.  A file is [st, cols, rows]: st is "ok",          *)
(* "missing", "not_utf8" (bytes that are not UTF-8) or "locked" (no        *)
(* permission to open); cols are its header's column names.                *)
(* Column names: "category" 核價類別; "code5" 功能類別(前5碼), "name" 名稱, *)
(* "size" 大小類, "type" 類別, "keyword" 搜尋關鍵字, "ref" 參考產品;        *)
(* "item" 特材代碼, "prefix5" 特材代碼前五碼, "category_name" 核價類別名稱; *)
(* "change_flag" 點數變更記錄.                                             *)
(***************************************************************************)
Table(cols, rows) == [st |-> "ok", cols |-> cols, rows |-> rows]

\* the exception pd.read_csv(file, encoding="utf-8") raises, or "none"
ReadError(f) ==
    CASE f.st = "missing"  -> "FileNotFoundError"
      [] f.st = "not_utf8" -> "UnicodeDecodeError"
      [] f.st = "locked"   -> "PermissionError"
      [] OTHER             -> "none"

\* Python's exception classes: the base classes of each class raised here
Bases(cls) ==
    CASE cls = "FileNotFoundError"  -> {"FileNotFoundError", "OSError", "Exception"}
      [] cls = "PermissionError"    -> {"PermissionError", "OSError", "Exception"}
      [] cls = "UnicodeDecodeError" -> {"UnicodeDecodeError", "UnicodeError", "ValueError", "Exception"}
      [] cls = "ValueError"         -> {"ValueError", "Exception"}
      [] OTHER                      -> {}
IsInstance(exc, cls) == cls \in Bases(exc)

\* str(e): the text of an exception raised on a file
ExcText(exc, what) == <<exc, what>>

(***************************************************************************)
(* search_products  (IndexSQL.py 120-173), with load_data_to_db (19-51)    *)
(* and query_products_by_function (102-118)                                *)
(***************************************************************************)
IndexCols == {"code5", "name", "size", "type", "keyword", "ref"}

\* load_data_to_db: DELETE FROM products, then the rows of the CSV
load_data_to_db(csv) == csv.rows

\* SELECT * FROM products WHERE "功能類別(前5碼)" = ?
query_products_by_function(db, ref_code) == SelectSeq(db, LAMBDA r : r.code = ref_code)

\* the loop over matched_products: every product of the match's class, annotated
Expand(db, keyword, matched) ==
    Flatten([m \in 1..Len(matched) |->
        LET df_results == query_products_by_function(db, matched[m][2])
        IN  [i \in 1..Len(df_results) |->
                [code5 |-> df_results[i].code, name |-> df_results[i].name,
                 size |-> df_results[i].size, type |-> df_results[i].type,
                 keyword |-> keyword, ref |-> matched[m][1]]]])

\* IndexSQL_find.csv after "if not matched_products: conn.close(); return"
\* (137-139): nothing is written
IndexAfterNoMatch(old) == old

\* [exc, matched, idx]: the exception that leaves search_products ("none": it
\* returns), matched_products, and IndexSQL_find.csv afterwards
search_products(keyword, csv, score, old, locked) ==
    IF ReadError(csv) # "none"
    THEN [exc |-> ReadError(csv), text |-> ExcText(ReadError(csv), "IndexCode.csv"),
          matched |-> <<>>, idx |-> old]
    ELSE LET db == load_data_to_db(csv)
             matched_products == fuzzy_search_product(db, keyword, score, DefaultThreshold)
         IN  IF matched_products = <<>>
             THEN [exc |-> "none", text |-> <<>>, matched |-> <<>>,
                   idx |-> IndexAfterNoMatch(old)]
             ELSE IF locked
             THEN [exc |-> "PermissionError",
                   text |-> ExcText("PermissionError", "IndexSQL_find.csv"),
                   matched |-> matched_products, idx |-> old]
             ELSE [exc |-> "none", text |-> <<>>, matched |-> matched_products,
                   idx |-> Table(IndexCols, Expand(db, keyword, matched_products))]

(***************************************************************************)
(* HistoryDataSearch  (HistoryDataSearch.py 63-181)                        *)
(***************************************************************************)
\* required_cols (103-107), in the order of the dict
RequiredFormat == <<"category">>
RequiredIndex  == <<"name", "code5">>
RequiredPrice  == <<"prefix5", "category_name">>

\* missing = [c for c in cols if c not in df.columns]
MissingCols(required, f) == SelectSeq(required, LAMBDA c : c \notin f.cols)

\* the first df_name whose columns are incomplete, with its missing columns
ColumnError(df_format, df_index, df_price) ==
    IF MissingCols(RequiredFormat, df_format) # <<>>
    THEN <<"df_format", MissingCols(RequiredFormat, df_format)>>
    ELSE IF MissingCols(RequiredIndex, df_index) # <<>>
    THEN <<"df_index", MissingCols(RequiredIndex, df_index)>>
    ELSE IF MissingCols(RequiredPrice, df_price) # <<>>
    THEN <<"df_price", MissingCols(RequiredPrice, df_price)>>
    ELSE <<>>

\* pd.merge(df_price, df_index[[code, name_clean]], left_on=prefix, right_on=code,
\* how="inner"): one row per pair of equal keys, in the order of the left rows
Stage1Join(price, index) ==
    Flatten([i \in 1..Len(price) |->
        LET hits == SelectSeq(index, LAMBDA x : x.code5 = price[i].prefix5)
        IN  [j \in 1..Len(hits) |->
                [item |-> price[i].item, prefix5 |-> price[i].prefix5,
                 category_name |-> price[i].category_name,
                 category_name_clean |-> clean_str(price[i].category_name),
                 name_clean |-> clean_str(TextVal(hits[j].name))]]])

\* df_format[['核價類別_clean']].drop_duplicates()
RECURSIVE DropDuplicates(_)
DropDuplicates(s) ==
    IF s = <<>> THEN <<>>
    ELSE LET init == DropDuplicates(SubSeq(s, 1, Len(s) - 1))
             last == s[Len(s)]
         IN  IF \E i \in 1..Len(init) : init[i] = last THEN init ELSE Append(init, last)

\* (the variant is line 140 without .drop_duplicates())
FormatValidKeepDuplicates(format) ==
    [i \in 1..Len(format) |-> clean_str(format[i].category)]
FormatValid(format) ==
    DropDuplicates([i \in 1..Len(format) |-> clean_str(format[i].category)])

\* result.merge(df_format_valid, left_on=..., right_on=..., how="left",
\* indicator=True), then the flag column and the projection (151-165)
Stage2Join(result, valid) ==
    Flatten([i \in 1..Len(result) |->
        LET hits == SelectSeq(valid, LAMBDA v : v = result[i].category_name_clean)
            row(merge) ==
                [item |-> result[i].item, prefix5 |-> result[i].prefix5,
                 category_name |-> result[i].category_name,
                 change_flag |-> IF merge = "both" THEN 1 ELSE 0]
        IN  IF hits = <<>> THEN <<row("left_only")>>
            ELSE [j \in 1..Len(hits) |-> row("both")]])

\* result['點數變更記錄'].sum()
RECURSIVE SumFlags(_)
SumFlags(rows) ==
    IF rows = <<>> THEN 0 ELSE Head(rows).change_flag + SumFlags(Tail(rows))

OutputCols == {"item", "prefix5", "category_name", "change_flag"}

\* the except clauses (176-181), in order
ErrorMessage(exc, text) ==
    IF IsInstance(exc, "FileNotFoundError") THEN <<"FileMissing">> \o text
    ELSE IF IsInstance(exc, "ValueError")   THEN <<"ColumnError">> \o text
    ELSE <<"Unexpected">> \o text

\* HistoryData.csv after the call: to_csv (168) is the last statement that can
\* raise, and it raises on opening the file.  The variant opens the file for writing
\* before the tables are read.
OutputTruncatedFirst(exc, old, result) ==
    IF exc = "none" THEN Table(OutputCols, result) ELSE Table({}, <<>>)
OutputAfter(exc, old, result) ==
    IF exc = "none" THEN Table(OutputCols, result) ELSE old

\* [df, msg, out]: the returned pair and HistoryData.csv afterwards
HistoryDataSearch(format_file, index_file, price_file, output_file, out_locked) ==
    LET read  == SelectSeq(<<<<format_file, "format_clean.csv">>,
                             <<index_file, "IndexSQL_find.csv">>,
                             <<price_file, "price.csv">>>>,
                           LAMBDA f : ReadError(f[1]) # "none")
        cols  == ColumnError(format_file, index_file, price_file)
        exc   == IF read # <<>> THEN ReadError(read[1][1])
                 ELSE IF cols # <<>> THEN "ValueError"
                 ELSE IF out_locked THEN "PermissionError"
                 ELSE "none"
        text  == IF read # <<>> THEN ExcText(exc, read[1][2])
                 ELSE IF cols # <<>> THEN cols
                 ELSE ExcText(exc, "HistoryData.csv")
        result == IF read # <<>> \/ cols # <<>> THEN <<>>
                  ELSE Stage2Join(Stage1Join(price_file.rows, index_file.rows),
                                  FormatValid(format_file.rows))
    IN  IF exc = "none"
        THEN [df  |-> [none |-> FALSE, rows |-> result],
              msg |-> <<"Done", Len(result), SumFlags(result), "HistoryData.csv">>,
              out |-> OutputAfter(exc, output_file, result)]
        ELSE [df  |-> NoFrame,
              msg |-> ErrorMessage(exc, text),
              out |-> OutputAfter(exc, output_file, result)]

(***************************************************************************)
(* The sample data directory.                                              *)
(***************************************************************************)
\* data/IndexCode.csv: two products of class C1, one of class C2
SampleCsv ==
    Table({"code5", "name", "size", "type"},
          << Product("C1", <<"a", "b">>, <<"x">>, <<"y">>),
             Product("C1", <<"x", "x">>, <<"x">>, <<"y">>),
             Product("C2", <<"A">>,      <<"y">>, <<"y">> ) >>)

\* token_set_ratio of the keyword against the sample's names: 0 where the two share
\* no character (the only scores the searches of Spec and SpecReconcile read)
SampleScore(keyword) ==
    [n \in NamesOf(SampleCsv.rows) |->
        IF Chars(keyword) \cap Chars(n) = {} THEN 0 ELSE 100]

\* the keywords typed in Spec: "b" is in one name, "a" in two (LIKE folds case),
\* "z" in none, " " is blank
PipelineKeywords == {<<"b">>, <<"a">>, <<"z">>, <<" ">>}

\* a file that an earlier search with this keyword wrote as IndexSQL_find.csv
IndexWrittenFor(keyword) ==
    search_products(keyword, SampleCsv, SampleScore(keyword), NoFile, FALSE).idx

PriceCols == {"item", "prefix5", "category_name"}
PriceRow(i, prefix, category) ==
    [item |-> i, prefix5 |-> prefix, category_name |-> category]

OldHistory ==
    Table(OutputCols, <<[item |-> 0, prefix5 |-> "C0",
                         category_name |-> TextVal(<<"q">>), change_flag |-> 1]>>)

(***************************************************************************)
(* SpecReconcile: HistoryDataSearch on a bounded data directory.           *)
(***************************************************************************)
PricePrefixes == {"C1", "C9"}
PriceCategories == {TextVal(<<"U+FF31", " ">>), TextVal(<<"I">>), NaNVal}
FormatCategories == {TextVal(<<"q">>), TextVal(<<"Q">>), NaNVal}

PriceFiles ==
    {Table(PriceCols, [i \in 1..Len(p) |-> PriceRow(i, p[i][1], p[i][2])]) :
        p \in SeqsUpTo(PricePrefixes \X PriceCategories, MaxPrice)}
    \cup {NoFile,
          Table({"item", "category_name"}, <<PriceRow(1, "C1", TextVal(<<"I">>))>>),
          Table({"item"}, <<PriceRow(1, "C1", TextVal(<<"I">>))>>)}

FormatFiles ==
    {Table({"category"}, [i \in 1..Len(f) |-> [category |-> f[i]]]) :
        f \in SeqsUpTo(FormatCategories, MaxFormat)}
    \cup {NoFile,
          Table({}, <<[category |-> NaNVal]>>),
          [st |-> "not_utf8", cols |-> {"category"}, rows |-> <<[category |-> TextVal(<<"q">>)]>>]}

IndexFiles ==
    {IndexWrittenFor(<<"b">>), IndexWrittenFor(<<"a">>), NoFile,
     [IndexWrittenFor(<<"b">>) EXCEPT !.st = "locked"],
     [IndexWrittenFor(<<"b">>) EXCEPT !.cols = IndexCols \ {"name"}]}

InitReconcile ==
    /\ env \in {[csv |-> SampleCsv, format |-> f, price |-> p,
                 idxLocked |-> FALSE, histLocked |-> l] :
                    f \in FormatFiles, p \in PriceFiles, l \in BOOLEAN}
    /\ idxFile \in IndexFiles
    /\ histFile = OldHistory
    /\ rc = NotRunReconcile
    /\ CleanIdle /\ SearchIdle /\ GuiIdle

Reconcile ==
    /\ ~rc.run
    /\ LET r == HistoryDataSearch(env.format, idxFile, env.price, histFile, env.histLocked)
       IN  /\ rc' = [run |-> TRUE, df |-> r.df, msg |-> r.msg,
                     before |-> histFile, index |-> idxFile,
                     keyword |-> <<>>, matched |-> <<>>]
           /\ histFile' = r.out
    /\ UNCHANGED <<env, idxFile, cleanVars, searchVars, guiVars>>

NextReconcile == Reconcile

SpecReconcile == InitReconcile /\ [][NextReconcile]_vars

(***************************************************************************)
(* Spec: the window, its workers and the data directory.                   *)
(* Worker.run (APP_UI_SQLver.py 101-128) runs in its own thread: it is two *)
(* steps, the search (103-111) and the reconcile with the emit (113-125),  *)
(* each with the except clause (127-128) that ends the run.                *)
(***************************************************************************)
SampleFormat == Table({"category"}, <<[category |-> TextVal(<<"q">>)]>>)
SamplePrice ==
    Table(PriceCols, << PriceRow(1, "C1", TextVal(<<"U+FF31", " ">>)),
                        PriceRow(2, "C2", TextVal(<<"I">>)),
                        PriceRow(3, "C9", TextVal(<<"U+FF31", " ">>)) >>)

GoodDir == [csv |-> SampleCsv, format |-> SampleFormat, price |-> SamplePrice,
            idxLocked |-> FALSE, histLocked |-> FALSE]

PipelineDirs ==
    {GoodDir,
     [GoodDir EXCEPT !.csv = NoFile],
     [GoodDir EXCEPT !.price = NoFile],
     [GoodDir EXCEPT !.idxLocked = TRUE],
     [GoodDir EXCEPT !.histLocked = TRUE]}

\* the finished signal of lines 122-125 (the variant emits "" for msg at 123)
FinishedSignalDroppingMessage(df, msg) ==
    IF df.none THEN [run |-> TRUE, df |-> <<>>, status |-> <<>>, error |-> <<>>]
    ELSE [run |-> TRUE, df |-> df.rows, status |-> msg, error |-> <<>>]
FinishedSignal(df, msg) ==
    IF df.none THEN [run |-> TRUE, df |-> <<>>, status |-> <<>>, error |-> msg]
    ELSE [run |-> TRUE, df |-> df.rows, status |-> msg, error |-> <<>>]

\* the finished signal of line 128
FailedSignal(text) == [run |-> TRUE, df |-> <<>>, status |-> <<>>, error |-> text]

\* self.search_btn.setEnabled(False)  (176); the variant is start_search without it
ButtonLeftEnabled == TRUE
ButtonAfterStart == FALSE

InProgress == {w \in 1..Len(wk) : wk[w].pc \in {"started", "searched"}}

Init ==
    /\ env \in PipelineDirs
    /\ idxFile = NoFile
    /\ histFile = NoFile
    /\ rc = NotRunReconcile
    /\ GuiIdle
    /\ CleanIdle /\ SearchIdle

\* start_search (164-188): the click reaches it only while the button is enabled
StartSearch(text) ==
    /\ btn
    /\ nWorkers < MaxRuns
    /\ Strip(text) # <<>>
    /\ btn' = ButtonAfterStart
    /\ ui' = [ui EXCEPT !.status = <<"Processing">>]
    /\ wk' = Append(wk, [pc |-> "started", keyword |-> Strip(text), matched |-> <<>>])
    /\ nWorkers' = nWorkers + 1
    /\ UNCHANGED <<sigq, emitted, fileVars, cleanVars, searchVars>>

\* start_search with a blank keyword (166-168)
StartSearchBlank(text) ==
    /\ btn
    /\ Strip(text) = <<>>
    /\ ui' = [ui EXCEPT !.box = "warning"]
    /\ UNCHANGED <<btn, wk, nWorkers, sigq, emitted, fileVars, cleanVars, searchVars>>

\* start_search with the directory dialog cancelled (171-173)
StartSearchCancelled(text) ==
    /\ btn
    /\ Strip(text) # <<>>
    /\ UNCHANGED vars

\* Worker.run, lines 103-111 (and 127-128 when search_products raises)
WorkerSearch(w) ==
    /\ wk[w].pc = "started"
    /\ LET kw == wk[w].keyword
           r  == search_products(kw, env.csv, SampleScore(kw), idxFile, env.idxLocked)
       IN  /\ idxFile' = r.idx
           /\ IF r.exc = "none"
              THEN /\ wk' = [wk EXCEPT ![w].pc = "searched", ![w].matched = r.matched]
                   /\ UNCHANGED <<sigq, emitted>>
              ELSE /\ wk' = [wk EXCEPT ![w].pc = "done", ![w].matched = r.matched]
                   /\ sigq' = Append(sigq, FailedSignal(r.text))
                   /\ emitted' = FailedSignal(r.text)
    /\ UNCHANGED <<btn, nWorkers, ui, env, histFile, rc, cleanVars, searchVars>>

\* Worker.run, lines 113-125
WorkerReconcile(w) ==
    /\ wk[w].pc = "searched"
    /\ LET r == HistoryDataSearch(env.format, idxFile, env.price, histFile, env.histLocked)
       IN  /\ histFile' = r.out
           /\ rc' = [run |-> TRUE, df |-> r.df, msg |-> r.msg, before |-> histFile,
                     index |-> idxFile, keyword |-> wk[w].keyword,
                     matched |-> wk[w].matched]
           /\ sigq' = Append(sigq, FinishedSignal(r.df, r.msg))
           /\ emitted' = FinishedSignal(r.df, r.msg)
    /\ wk' = [wk EXCEPT ![w].pc = "done"]
    /\ UNCHANGED <<btn, nWorkers, ui, env, idxFile, cleanVars, searchVars>>

\* on_finished (191-205), run by the GUI thread for the oldest queued signal
OnFinished ==
    /\ sigq # <<>>
    /\ LET sig == Head(sigq)
       IN  /\ btn' = TRUE
           /\ ui' = IF sig.error # <<>>
                    THEN [ui EXCEPT !.box = "critical", !.status = <<"Failed">>]
                    ELSE IF sig.df = <<>>
                    THEN [ui EXCEPT !.box = "information",
                                    !.status = IF sig.status # <<>> THEN sig.status
                                               ELSE <<"NoData">>]
                    ELSE [ui EXCEPT !.table = sig.df,
                                    !.status = IF sig.status # <<>> THEN sig.status
                                               ELSE <<"Finished">>]
    /\ sigq' = Tail(sigq)
    /\ UNCHANGED <<wk, nWorkers, emitted, fileVars, cleanVars, searchVars>>

Next ==
    \/ \E text \in PipelineKeywords : StartSearch(text)
    \/ \E text \in PipelineKeywords : StartSearchBlank(text)
    \/ \E text \in PipelineKeywords : StartSearchCancelled(text)
    \/ \E w \in 1..Len(wk) : WorkerSearch(w)
    \/ \E w \in 1..Len(wk) : WorkerReconcile(w)
    \/ OnFinished

Spec == Init /\ [][Next]_vars

(***************************************************************************)
(* Properties.                                                             *)
(***************************************************************************)
HasCode(index, prefix) == \E j \in 1..Len(index) : index[j].code5 = prefix

ValidCategorySet(format) == {clean_str(format[i].category) : i \in 1..Len(format)}

\* the pairs (price row, expanded row) that survive stage 1 with a valid category
ValidSurvivors(price, index, format) ==
    {kj \in (1..Len(price)) \X (1..Len(index)) :
        /\ index[kj[2]].code5 = price[kj[1]].prefix5
        /\ clean_str(price[kj[1]].category_name) \in ValidCategorySet(format)}

C4_NoMoreRowsThanPrice ==
    (rc.run /\ ~rc.df.none) => Len(rc.df.rows) <= Len(env.price.rows)

\* the first of the three source files, in reading order, that cannot be read
FirstUnreadable(files) == SelectSeq(files, LAMBDA f : f.st # "ok")

\* C5: a failing HistoryDataSearch returns the file-missing message when the file
\* it fails on is absent, the missing-columns message, naming the columns, when and
\* only when the three files were read and a required column is absent, and the
\* generic message for every other exception.
C5_ThreeMessages ==
    (rc.run /\ rc.df.none) =>
        LET bad  == FirstUnreadable(<<env.format, rc.index, env.price>>)
            cols == ColumnError(env.format, rc.index, env.price)
        IN  /\ rc.msg[1] \in {"FileMissing", "ColumnError", "Unexpected"}
            /\ rc.msg[1] = "FileMissing" <=> (bad # <<>> /\ bad[1].st = "missing")
            /\ rc.msg[1] = "ColumnError" <=> (bad = <<>> /\ cols # <<>>)
            /\ rc.msg[1] = "ColumnError" => Tail(rc.msg) = cols

\* C9: a failing HistoryDataSearch returns (None, message) with no rows and leaves
\* HistoryData.csv as it was before the call; a succeeding one leaves in it the
\* whole returned table.
C9_FailsAtomically ==
    rc.run =>
        /\ rc.df.none => (rc.df.rows = <<>> /\ rc.msg # <<>> /\ histFile = rc.before)
        /\ ~rc.df.none => histFile = Table(OutputCols, rc.df.rows)

\* C9's case: the call failed on the columns, after the three files were read, and
\* HistoryData.csv held an earlier result
C9_Witness ==
    /\ rc.run /\ rc.df.none
    /\ rc.msg[1] = "ColumnError"
    /\ rc.before = OldHistory

RECURSIVE IsPrefixFolded(_, _)
IsPrefixFolded(k, t) ==
    k = <<>> \/ (t # <<>> /\ Fold(Head(k)) = Fold(Head(t)) /\ IsPrefixFolded(Tail(k), Tail(t)))

\* text contains the keyword as a substring, letter case aside
RECURSIVE ContainsKeyword(_, _)
ContainsKeyword(t, k) == IsPrefixFolded(k, t) \/ (t # <<>> /\ ContainsKeyword(Tail(t), k))

\* C6: when some record's name, size class or type class contains the keyword, the
\* result is exactly those records' matches in storage order; otherwise every match
\* returned is one of the top ExtractLimit candidates by score and scores at least
\* the threshold.
C6_StrictlyTiered ==
    fs_res.run =>
        LET exact == SelectSeq(fs_db, LAMBDA r : \/ ContainsKeyword(r.name, fs_kw)
                                                 \/ ContainsKeyword(r.size, fs_kw)
                                                 \/ ContainsKeyword(r.type, fs_kw))
            top   == Extract([i \in 1..Len(fs_db) |-> fs_db[i].name], fs_score)
        IN  IF exact # <<>>
            THEN fs_res.matches = [i \in 1..Len(exact) |-> <<exact[i].name, exact[i].code>>]
            ELSE \A i \in 1..Len(fs_res.matches) :
                    /\ \E j \in 1..Len(top) : top[j] = fs_res.matches[i][1]
                    /\ fs_score[fs_res.matches[i][1]] >= DefaultThreshold

\* C7 as stated: clean_str returns the empty string for every missing, NaN-like
\* and non-string numeric input.
C7_NumericToEmpty ==
    (cs_out.run /\ cs_in.tag \in {"None", "nan", "int", "float"}) => cs_out.s = <<>>

\* C7 amended: clean_str returns the empty string for every missing and NaN-like
\* input, and for an int or float the text of str(value), which is not empty.
C7_MissingToEmpty ==
    cs_out.run =>
        /\ cs_in.tag \in {"None", "nan"} => cs_out.s = <<>>
        /\ cs_in.tag \in {"int", "float"} => (cs_out.s = PyStr(cs_in) /\ cs_out.s # <<>>)

\* C7's cases: clean_str(5) has returned "5"
C7_Witness == cs_out.run /\ cs_in = IntVal(5) /\ cs_out.s = <<"5">>

\* C8: clean_str(clean_str(x)) = clean_str(x) for every x.
C8_Idempotent == cs_again.run => cs_again.s = cs_out.s

C3_NoMatchNoStaleRows ==
    (rc.run /\ rc.matched = <<>>) =>
        /\ \A i \in 1..Len(rc.index.rows) : rc.index.rows[i].keyword = rc.keyword
        /\ rc.index.rows = <<>>
        /\ rc.df.rows = <<>>

\* C10: at most one Worker.run is in progress, and the button is enabled only
\* while none is.
C10_OneRunAtATime ==
    /\ Cardinality(InProgress) <= 1
    /\ btn => InProgress = {}

\* C10's case: a later search is in its reconcile step after an earlier one finished
C10_Witness ==
    /\ Len(wk) >= 2
    /\ wk[1].pc = "done"
    /\ wk[2].pc = "searched"
    /\ ~btn

=============================================================================
